---- MODULE Spec2Model ----
(***************************************************************************)
(* Model of the trendradar content pipeline:                               *)
(*   ai/zhipu_client.py       ZhipuClient (title / summary / tag)          *)
(*   ai/processor.py          AIProcessor (enrich, categorize, render)     *)
(*   report/generator.py      prepare_report_data                          *)
(*   notification/formatters.py  strip_markdown, convert_markdown_to_mrkdwn*)
(*                                                                         *)
(* A Python str is a sequence of one-character strings.  A Chinese         *)
(* character is written as one element holding its pinyin syllable.  A     *)
(* Python dict is a function whose DOMAIN is the set of keys present; a    *)
(* dict whose insertion order matters is a sequence of entries.            *)
(***************************************************************************)
EXTENDS Integers, Sequences, FiniteSets, TLC

VARIABLES
    pc,                 \* position of the running call
    args,               \* the arguments of the entry call, as the caller passed them
    config,             \* AIProcessor fields set by __init__
    news_list,          \* process_news_list: the list object it was handed
    failures,           \* per processed item, the client call whose exception was caught
    processed_list,     \* process_news_list: the list being built
    categorized_news,   \* result of categorize_news / argument of format_for_video
    video_text,         \* result of format_for_video
    report,             \* prepare_report_data: its locals, then the payload it returns
    fn_arg,             \* argument of the text function under check
    fn_ret              \* its result

vars == <<pc, args, config, news_list, failures, processed_list,
          categorized_news, video_text, report, fn_arg, fn_ret>>

None == "None"

(***************************************************************************)
(* Python str and dict primitives                                          *)
(***************************************************************************)
Min(a, b) == IF a < b THEN a ELSE b
Max(a, b) == IF a > b THEN a ELSE b

\* s[:k], k possibly negative (then counted from the end)
PySliceTo(s, k) ==
    IF k >= 0 THEN SubSeq(s, 1, Min(k, Len(s)))
    ELSE SubSeq(s, 1, Max(0, Len(s) + k))

\* s[k:], k >= 0
PySliceFrom(s, k) == SubSeq(s, Min(k, Len(s)) + 1, Len(s))

\* d.get(k, default)
Get(d, k, default) == IF k \in DOMAIN d THEN d[k] ELSE default

\* sub in s
Contains(s, sub) ==
    \E i \in 0..(Len(s) - Len(sub)) : SubSeq(s, i + 1, i + Len(sub)) = sub

Whitespace == {" ", "\n", "\t"}

RECURSIVE LStrip(_)
LStrip(s) == IF s # <<>> /\ Head(s) \in Whitespace THEN LStrip(Tail(s)) ELSE s

RECURSIVE RStrip(_)
RStrip(s) ==
    IF s # <<>> /\ s[Len(s)] \in Whitespace
    THEN RStrip(SubSeq(s, 1, Len(s) - 1)) ELSE s

\* s.strip()
Strip(s) == LStrip(RStrip(s))

\* s.replace(c, "") for a one-character c
RemoveChar(s, c) == SelectSeq(s, LAMBDA x : x # c)

\* any(keyword in text for keyword in keywords)
AnyKeywordIn(keywords, text) ==
    \E k \in 1..Len(keywords) : Contains(text, keywords[k])

\* sum(q)
RECURSIVE SumSeq(_)
SumSeq(q) == IF q = <<>> THEN 0 ELSE Head(q) + SumSeq(Tail(q))

Ellipsis == <<".", ".", ".">>

(***************************************************************************)
(* ZhipuClient.  The remote completion is the external service: a call     *)
(* either returns a text (kind "ok") or errors (kind "error").  Kind       *)
(* "raise" is an exception that leaves the client method.                  *)
(***************************************************************************)
Returned(v) == [raised |-> FALSE, value |-> v]
Raised == [raised |-> TRUE]

\* the length safety net applied to the service's text
Truncate(text, max_length) ==
    IF Len(text) > max_length
    THEN PySliceTo(text, max_length - 3) \o Ellipsis
    ELSE text

generate_summary(content, title, max_length, o) ==
    CASE o.kind = "ok"    -> Returned(Truncate(Strip(o.text), max_length))
      [] o.kind = "error" -> Returned(Truncate(content, max_length))
      [] o.kind = "raise" -> Raised

generate_title(content, original_title, max_length, o) ==
    CASE o.kind = "ok"    -> Returned(Truncate(Strip(o.text), max_length))
      [] o.kind = "error" -> Returned(Truncate(original_title, max_length))
      [] o.kind = "raise" -> Raised

TagPrefixLen == 6

FallbackKeywords ==
    << <<"A", "I">>, <<"ren", "gong", "zhi", "neng">>, <<"xin", "pian">>,
       <<"G", "P", "U">>, <<"C", "P", "U">>, <<"shou", "ji">>,
       <<"you", "xi">>, <<"ke", "ji">>, <<"chuang", "ye">>, <<"tou", "zi">> >>

\* index of the first keyword contained in title, 0 when there is none
RECURSIVE FirstKeywordIn(_, _, _)
FirstKeywordIn(keywords, k, title) ==
    IF k > Len(keywords) THEN 0
    ELSE IF Contains(title, keywords[k]) THEN k
    ELSE FirstKeywordIn(keywords, k + 1, title)

extract_keyword_from_title(title) ==
    LET hit == FirstKeywordIn(FallbackKeywords, 1, title)
    IN  IF hit # 0 THEN FallbackKeywords[hit] ELSE PySliceTo(title, TagPrefixLen)

generate_tag(content, title, o) ==
    CASE o.kind = "ok"    -> Returned(Strip(RemoveChar(Strip(o.text), "#")))
      [] o.kind = "error" -> Returned(extract_keyword_from_title(title))
      [] o.kind = "raise" -> Raised

(***************************************************************************)
(* AIProcessor                                                             *)
(***************************************************************************)
TitleLengthDefault == 30
SummaryLengthDefault == 150

AiFields == {"ai_title", "ai_summary", "ai_tag", "original_title"}

\* a or b, for str operands
PyOr(a, b) == IF a # <<>> THEN a ELSE b

\* process_news_item: the returned item, the input dict as the call leaves it,
\* and the client call whose exception was caught ("none" when there was none).
\* o holds what the three client calls do.  The mutant keeps the fields
\* generated before the call that failed.
process_news_item_partial(cfg, news_item, o) ==
    LET title   == Get(news_item, "title", <<>>)
        content == PyOr(Get(news_item, "content", <<>>),
                        Get(news_item, "description", <<>>))
        ai_title   == generate_title(content, title, cfg.title_length, o.title)
        ai_summary == generate_summary(content, title, cfg.summary_length, o.summary)
        ai_tag     == generate_tag(content, title, o.tag)
        unchanged(f) == [item |-> news_item, input |-> news_item, failed |-> f]
        with(keys) ==
            [k \in DOMAIN news_item \cup keys |->
               CASE k = "ai_title"       -> ai_title.value
                 [] k = "ai_summary"     -> ai_summary.value
                 [] k = "ai_tag"         -> ai_tag.value
                 [] k = "original_title" -> title
                 [] OTHER                -> news_item[k]]
    IN  IF ~cfg.enabled \/ cfg.client = None THEN unchanged("none")
        ELSE IF ai_title.raised THEN unchanged("generate_title")
        ELSE IF ai_summary.raised
             THEN [item |-> with({"ai_title"}), input |-> news_item,
                   failed |-> "generate_summary"]
        ELSE IF ai_tag.raised
             THEN [item |-> with({"ai_title", "ai_summary"}), input |-> news_item,
                   failed |-> "generate_tag"]
        ELSE [item |-> with(AiFields), input |-> news_item, failed |-> "none"]

process_news_item(cfg, news_item, o) ==
    LET title   == Get(news_item, "title", <<>>)
        content == PyOr(Get(news_item, "content", <<>>),
                        Get(news_item, "description", <<>>))
        ai_title   == generate_title(content, title, cfg.title_length, o.title)
        ai_summary == generate_summary(content, title, cfg.summary_length, o.summary)
        ai_tag     == generate_tag(content, title, o.tag)
        unchanged(f) == [item |-> news_item, input |-> news_item, failed |-> f]
    IN  IF ~cfg.enabled \/ cfg.client = None THEN unchanged("none")
        ELSE IF ai_title.raised THEN unchanged("generate_title")
        ELSE IF ai_summary.raised THEN unchanged("generate_summary")
        ELSE IF ai_tag.raised THEN unchanged("generate_tag")
        ELSE [item |->
                [k \in DOMAIN news_item \cup AiFields |->
                   CASE k = "ai_title"       -> ai_title.value
                     [] k = "ai_summary"     -> ai_summary.value
                     [] k = "ai_tag"         -> ai_tag.value
                     [] k = "original_title" -> title
                     [] OTHER                -> news_item[k]],
              input |-> news_item,
              failed |-> "none"]

\* categorize_news
CategoryKeys == <<"KejiAI", "YouxiYule", "YingjianShuma">>
CategoryKeySet == {CategoryKeys[j] : j \in 1..Len(CategoryKeys)}

tech_keywords ==
    << <<"A", "I">>, <<"ren", "gong", "zhi", "neng">>,
       <<"ji", "qi", "xue", "xi">>, <<"da", "mo", "xing">>, <<"ke", "ji">>,
       <<"chuang", "ye">>, <<"tou", "zi">>, <<"kai", "yuan">>,
       <<"cheng", "xu", "yuan">>, <<"suan", "fa">> >>

game_keywords ==
    << <<"you", "xi">>, <<"dian", "jing">>, <<"S", "t", "e", "a", "m">>,
       <<"zhi", "bo">>, <<"yu", "le">>, <<"D", "O", "T", "A">>,
       <<"L", "O", "L">>, <<"wang", "zhe">>, <<"yuan", "shen">>,
       <<"mi", "ha", "you">> >>

hardware_keywords ==
    << <<"xin", "pian">>, <<"G", "P", "U">>, <<"C", "P", "U">>,
       <<"shou", "ji">>, <<"i", "P", "h", "o", "n", "e">>, <<"hua", "wei">>,
       <<"xiao", "mi">>, <<"ying", "jian">>, <<"shu", "ma">>,
       <<"ping", "ban">> >>

\* the text an item is matched on (lines 137-139)
CategorizeText(news_item) ==
    LET title   == PyOr(Get(news_item, "ai_title", <<>>), Get(news_item, "title", <<>>))
        content == PyOr(Get(news_item, "ai_summary", <<>>), Get(news_item, "content", <<>>))
    IN  title \o <<" ">> \o content

\* the bucket an item is appended to (lines 142-150); the mutant tests the
\* gaming keywords first
CategoryOfGameFirst(news_item) ==
    LET text == CategorizeText(news_item)
    IN  IF AnyKeywordIn(game_keywords, text) THEN "YouxiYule"
        ELSE IF AnyKeywordIn(tech_keywords, text) THEN "KejiAI"
        ELSE IF AnyKeywordIn(hardware_keywords, text) THEN "YingjianShuma"
        ELSE "KejiAI"

CategoryOf(news_item) ==
    LET text == CategorizeText(news_item)
    IN  IF AnyKeywordIn(tech_keywords, text) THEN "KejiAI"
        ELSE IF AnyKeywordIn(game_keywords, text) THEN "YouxiYule"
        ELSE IF AnyKeywordIn(hardware_keywords, text) THEN "YingjianShuma"
        ELSE "KejiAI"

RECURSIVE CategorizeFrom(_, _, _)
CategorizeFrom(list, k, categories) ==
    IF k > Len(list) THEN categories
    ELSE CategorizeFrom(list, k + 1,
            [categories EXCEPT ![CategoryOf(list[k])] = Append(@, list[k])])

\* the mutant tests the three keyword lists with independent ifs
RECURSIVE CategorizeEveryMatchFrom(_, _, _)
CategorizeEveryMatchFrom(list, k, categories) ==
    IF k > Len(list) THEN categories
    ELSE LET text == CategorizeText(list[k])
             tech == AnyKeywordIn(tech_keywords, text)
             game == AnyKeywordIn(game_keywords, text)
             hard == AnyKeywordIn(hardware_keywords, text)
         IN  CategorizeEveryMatchFrom(list, k + 1,
                [key \in DOMAIN categories |->
                   IF \/ key = "KejiAI" /\ (tech \/ ~(game \/ hard))
                      \/ key = "YouxiYule" /\ game
                      \/ key = "YingjianShuma" /\ hard
                   THEN Append(categories[key], list[k])
                   ELSE categories[key]])

categorize_news_every_match(list) ==
    CategorizeEveryMatchFrom(list, 1,
        [key \in {CategoryKeys[j] : j \in 1..Len(CategoryKeys)} |-> <<>>])

categorize_news(list) ==
    CategorizeFrom(list, 1,
        [key \in {CategoryKeys[j] : j \in 1..Len(CategoryKeys)} |-> <<>>])

(***************************************************************************)
(* AIProcessor rendering.  A rendered text is the sequence of its lines,   *)
(* each line a record of its fixed wording (kind) and the values           *)
(* interpolated into it.                                                   *)
(***************************************************************************)
category_order == <<"KejiAILei", "YouxiYuleLei", "YingjianShumaLei">>

RECURSIVE Flatten(_)
Flatten(seqs) == IF seqs = <<>> THEN <<>> ELSE Head(seqs) \o Flatten(Tail(seqs))

Line(kind) == [kind |-> kind]
TextLine(kind, text) == [kind |-> kind, text |-> text]

\* category in categorized_news and categorized_news[category]
HasNews(categorized, category) ==
    category \in DOMAIN categorized /\ categorized[category] # <<>>

\* one enumerated block of the basic listing (lines 196-209)
BasicBlock(i, news) ==
    LET title   == Get(news, "ai_title", Get(news, "title", <<>>))
        summary == Get(news, "ai_summary", <<>>)
        tag     == Get(news, "ai_tag", <<>>)
        url     == Get(news, "url", <<>>)
    IN  << [kind |-> "numbered", index |-> i, text |-> title] >>
        \o (IF summary # <<>> THEN <<TextLine("summary", summary)>> ELSE <<>>)
        \o (IF tag # <<>> THEN <<TextLine("tag", tag)>> ELSE <<>>)
        \o (IF url # <<>> THEN <<TextLine("url", url)>> ELSE <<>>)
        \o <<Line("blank")>>

generate_basic_format(categorized) ==
    <<Line("basic_title"), Line("blank")>>
    \o Flatten([c \in 1..Len(category_order) |->
          LET category == category_order[c]
          IN  IF HasNews(categorized, category)
              THEN <<[kind |-> "header", category |-> category]>>
                   \o Flatten([i \in 1..Len(categorized[category]) |->
                                 BasicBlock(i, categorized[category][i])])
                   \o <<Line("blank")>>
              ELSE <<>>])

\* one narrated item of the script (lines 232-239)
ScriptBlock(i, news) ==
    LET title   == Get(news, "ai_title", Get(news, "title", <<>>))
        summary == Get(news, "ai_summary", <<>>)
    IN  << [kind |-> "narrated", index |-> i, text |-> title] >>
        \o (IF summary # <<>> THEN <<TextLine("summary", summary)>> ELSE <<>>)
        \o <<Line("blank")>>

generate_video_script(categorized) ==
    <<Line("script_title"), Line("blank"), Line("greeting"), Line("blank")>>
    \o Flatten([c \in 1..Len(category_order) |->
          LET category == category_order[c]
          IN  IF HasNews(categorized, category)
              THEN << [kind |-> "script_header", category |-> category],
                      [kind |-> "intro", category |-> category],
                      Line("blank") >>
                   \o Flatten([i \in 1..Len(categorized[category]) |->
                                 ScriptBlock(i, categorized[category][i])])
                   \o <<Line("separator"), Line("blank")>>
              ELSE <<>>])
    \o <<Line("sign_off")>>

OpeningSeconds == 5
ClosingSeconds == 5
SecondsPerNews == 8
MaxSegmentSeconds == 30

\* {t//60}:{t%60:02d}
Clock(t) == [minutes |-> t \div 60, seconds |-> t % 60]

\* min(30, news_count * 8); the mutant leaves the cap out
segment_duration_uncapped(news_count) == news_count * SecondsPerNews

segment_duration(news_count) == Min(MaxSegmentSeconds, news_count * SecondsPerNews)

\* time_offset after the first c categories of category_order (lines 264-279)
RECURSIVE time_offset(_, _)
time_offset(categorized, c) ==
    IF c = 0 THEN OpeningSeconds
    ELSE time_offset(categorized, c - 1)
         + (IF HasNews(categorized, category_order[c])
            THEN segment_duration(Len(categorized[category_order[c]]))
            ELSE 0)

generate_storyboard(categorized) ==
    LET end_start == time_offset(categorized, Len(category_order))
        end_end   == end_start + ClosingSeconds
    IN  << Line("storyboard_title"), Line("blank"),
           [kind |-> "shot", number |-> 1, name |-> "opening",
            start |-> Clock(0), end |-> Clock(OpeningSeconds)],
           Line("opening_visual"), Line("opening_text"), Line("fade_in_out"),
           Line("blank") >>
        \o Flatten([c \in 1..Len(category_order) |->
              LET category == category_order[c]
              IN  IF HasNews(categorized, category)
                  THEN << [kind |-> "shot", number |-> c + 1, name |-> category,
                           start |-> Clock(time_offset(categorized, c - 1)),
                           end |-> Clock(time_offset(categorized, c))],
                          [kind |-> "visual", category |-> category],
                          [kind |-> "content", category |-> category,
                           news_count |-> Len(categorized[category])],
                          Line("slide"), Line("blank") >>
                  ELSE <<>>])
        \o << [kind |-> "shot", number |-> Len(category_order) + 2,
                name |-> "closing",
                start |-> Clock(end_start), end |-> Clock(end_end)],
               Line("closing_visual"), Line("closing_text"), Line("fade_out"),
               Line("blank"),
               [kind |-> "total", duration |-> Clock(end_end)] >>

\* result is the dict of the sections that were generated
combine_all_formats(result) ==
    (IF "basic_format" \in DOMAIN result
     THEN result["basic_format"] \o <<Line("blank")>> ELSE <<>>)
    \o (IF "video_script" \in DOMAIN result
         THEN <<Line("separator"), Line("blank")>> \o result["video_script"]
              \o <<Line("blank")>>
         ELSE <<>>)
    \o (IF "storyboard" \in DOMAIN result
         THEN <<Line("separator"), Line("blank")>> \o result["storyboard"]
         ELSE <<>>)

NoContent == <<Line("no_content")>>

\* not categorized_news: None or a dict with no key
IsFalsy(categorized) == DOMAIN categorized = {}

format_for_video(cfg, categorized) ==
    IF IsFalsy(categorized) THEN NoContent
    ELSE LET keys == {"basic_format"}
                     \cup (IF cfg.generate_script THEN {"video_script"} ELSE {})
                     \cup (IF cfg.generate_storyboard THEN {"storyboard"} ELSE {})
             result == [k \in keys |->
                 CASE k = "basic_format" -> generate_basic_format(categorized)
                   [] k = "video_script" -> generate_video_script(categorized)
                   [] k = "storyboard"   -> generate_storyboard(categorized)]
         IN  combine_all_formats(result)

(***************************************************************************)
(* AIProcessor.__init__ (lines 13-49): enabled stays true only with the    *)
(* zhipu provider and a configured API key (ZhipuClient.__init__ raises    *)
(* without one).                                                           *)
(***************************************************************************)
AIProcessorInit(ai_config, api_key_set) ==
    LET enabled  == Get(ai_config, "enabled", FALSE)
        provider == Get(ai_config, "provider", "zhipu")
        client_ok == enabled /\ provider = "zhipu" /\ api_key_set
    IN  [enabled            |-> client_ok,
         provider           |-> provider,
         client             |-> IF client_ok THEN "ZhipuClient" ELSE None,
         summary_length     |-> Get(ai_config, "summary_length", SummaryLengthDefault),
         title_length       |-> Get(ai_config, "title_length", TitleLengthDefault),
         video_format       |-> Get(ai_config, "video_format", TRUE),
         generate_script    |-> Get(ai_config, "generate_script", TRUE),
         generate_storyboard |-> Get(ai_config, "generate_storyboard", TRUE)]

(***************************************************************************)
(* Inputs                                                                  *)
(***************************************************************************)
MaxItems == 2

StrAI    == <<"A", "I">>
StrSteam == <<"S", "t", "e", "a", "m">>
StrGPU   == <<"G", "P", "U">>
StrPhone == <<"shou", "ji">>
StrPlain == <<"x">>
StrUrl   == <<"u">>

RawItems ==
    { [title |-> StrAI, content |-> StrSteam, url |-> StrUrl],
      [title |-> StrSteam, content |-> <<>>, url |-> StrUrl],
      [title |-> StrPlain, description |-> StrGPU],
      [title |-> StrPhone, content |-> <<>>] }

SeqsUpTo(S, n) == UNION {[1..k -> S] : k \in 0..n}

Ok(text) == [kind |-> "ok", text |-> text]
ServiceError == [kind |-> "error"]
Raise == [kind |-> "raise"]

NoFn == [name |-> "none"]
NoReport == [stage |-> "none"]

\* what the three client calls of one process_news_item may do
Outcomes ==
    [title   : {Ok(<<" ">>), Ok(StrSteam), ServiceError, Raise},
     summary : {Ok(StrGPU), ServiceError, Raise},
     tag     : {Ok(<<"#", "t">>), ServiceError, Raise}]

\* the same under prepare_report_data: every call returns, or the summary
\* call raises
ReportOutcomes ==
    [title   : {Ok(StrSteam)},
     summary : {Ok(StrGPU), Raise},
     tag     : {Ok(<<"#", "t">>)}]

\* what the service may do in the run at hand
ServiceOutcomes == IF report = NoReport THEN Outcomes ELSE ReportOutcomes

ProcessorConfigs ==
    {AIProcessorInit(c, k) :
        c \in [enabled : BOOLEAN, generate_script : BOOLEAN,
               generate_storyboard : BOOLEAN],
        k \in BOOLEAN}


(***************************************************************************)
(* AIProcessor driven as prepare_report_data drives it: process_news_list, *)
(* then categorize_news on its result, then format_for_video.              *)
(***************************************************************************)
InitProcessor ==
    /\ pc = "process_news_list"
    /\ config \in ProcessorConfigs
    /\ news_list \in SeqsUpTo(RawItems, MaxItems)
    /\ args = [news_list |-> news_list]
    /\ failures = <<>>
    /\ processed_list = <<>>
    /\ categorized_news = <<>>
    /\ video_text = <<>>
    /\ report = NoReport
    /\ fn_arg = NoFn
    /\ fn_ret = NoFn

\* line 96-97: disabled, the list is returned as it is
ProcessNewsListDisabled ==
    /\ pc = "process_news_list"
    /\ ~config.enabled
    /\ processed_list' = news_list
    /\ pc' = "categorize_news"
    /\ UNCHANGED <<args, config, news_list, failures, categorized_news,
                   video_text, report, fn_arg, fn_ret>>

\* lines 100-111: one iteration of the loop.  process_news_item catches every
\* Exception itself, so the handler of lines 109-111 appends the same item
\* the call would have returned.  The mutant loses the item whose
\* enrichment failed.
ProcessNewsListStepDrop ==
    /\ pc = "process_news_list"
    /\ config.enabled
    /\ Len(failures) < Len(news_list)
    /\ \E o \in Outcomes :
         LET i == Len(failures) + 1
             r == process_news_item(config, news_list[i], o)
         IN  /\ processed_list' = IF r.failed = "none"
                                  THEN Append(processed_list, r.item)
                                  ELSE processed_list
             /\ news_list' = [news_list EXCEPT ![i] = r.input]
             /\ failures' = Append(failures, r.failed)
    /\ UNCHANGED <<pc, args, config, categorized_news, video_text, report, fn_arg, fn_ret>>

ProcessNewsListStep ==
    /\ pc = "process_news_list"
    /\ config.enabled
    /\ Len(failures) < Len(news_list)
    /\ \E o \in ServiceOutcomes :
         LET i == Len(failures) + 1
             r == process_news_item(config, news_list[i], o)
         IN  /\ processed_list' = Append(processed_list, r.item)
             /\ news_list' = [news_list EXCEPT ![i] = r.input]
             /\ failures' = Append(failures, r.failed)
    /\ UNCHANGED <<pc, args, config, categorized_news, video_text, report, fn_arg, fn_ret>>

\* lines 113-114: the loop is over
ProcessNewsListReturn ==
    /\ pc = "process_news_list"
    /\ config.enabled
    /\ Len(failures) = Len(news_list)
    /\ pc' = "categorize_news"
    /\ UNCHANGED <<args, config, news_list, failures, processed_list,
                   categorized_news, video_text, report, fn_arg, fn_ret>>

CategorizeNews ==
    /\ pc = "categorize_news"
    /\ categorized_news' = categorize_news(processed_list)
    /\ pc' = "format_for_video"
    /\ UNCHANGED <<args, config, news_list, failures, processed_list,
                   video_text, report, fn_arg, fn_ret>>

FormatForVideo ==
    /\ pc = "format_for_video"
    /\ video_text' = format_for_video(config, categorized_news)
    /\ pc' = "done"
    /\ UNCHANGED <<args, config, news_list, failures, processed_list,
                   categorized_news, report, fn_arg, fn_ret>>

NextProcessor ==
    \/ ProcessNewsListDisabled
    \/ ProcessNewsListStep
    \/ ProcessNewsListReturn
    \/ CategorizeNews
    \/ FormatForVideo

SpecProcessor == InitProcessor /\ [][NextProcessor]_vars

(***************************************************************************)
(* format_for_video called on a mapping the caller built: no key at all,   *)
(* the keys of categorize_news, or the keys of category_order, each bucket *)
(* holding up to MaxBucket items.                                          *)
(***************************************************************************)
MaxBucket == 10

PlainItem == [title |-> StrPlain, content |-> <<>>, url |-> StrUrl]

CategoryOrderSet == {category_order[j] : j \in 1..Len(category_order)}

Buckets(keys) ==
    {[key \in keys |-> [i \in 1..n[key] |-> PlainItem]] :
        n \in [keys -> 0..MaxBucket]}

InitRender ==
    /\ pc = "format_for_video"
    /\ config \in ProcessorConfigs
    /\ config.enabled
    /\ categorized_news \in
          Buckets({}) \cup Buckets(CategoryKeySet) \cup Buckets(CategoryOrderSet)
    /\ args = [categorized_news |-> categorized_news]
    /\ news_list = <<>>
    /\ failures = <<>>
    /\ processed_list = <<>>
    /\ video_text = <<>>
    /\ report = NoReport
    /\ fn_arg = NoFn
    /\ fn_ret = NoFn

NextRender == FormatForVideo

SpecRender == InitRender /\ [][NextRender]_vars

(***************************************************************************)
(* report/generator.py: prepare_report_data.  An Optional argument is a    *)
(* sequence of length 0 (None) or 1.  new_titles, a dict of dicts in       *)
(* insertion order, is a sequence of [source_id, titles] entries, titles a *)
(* sequence of [title, data] entries.                                      *)
(***************************************************************************)
NoneArg == <<>>
Some(v) == <<v>>

\* bool(x) of an Optional dict or list
Truthy(opt) == opt # <<>> /\ opt[1] # <<>>

RankThresholdDefault == 3

\* lines 85-91: keep the titles the predicate accepts, and the sources that
\* keep at least one title.  accepts is the set of titles for which
\* matches_word_groups_func returns true.
FilterNewTitles(new_titles, accepts) ==
    LET kept(entry) == [source_id |-> entry.source_id,
                        titles |-> SelectSeq(entry.titles,
                                             LAMBDA t : t.title \in accepts)]
    IN  SelectSeq([k \in 1..Len(new_titles) |-> kept(new_titles[k])],
                  LAMBDA e : e.titles # <<>>)

\* lines 80-94
FilteredNewTitles(a) ==
    IF Truthy(a.new_titles) /\ Truthy(a.id_to_name)
    THEN IF a.matches_word_groups_func # NoneArg /\ a.load_frequency_words_func # NoneArg
         THEN FilterNewTitles(a.new_titles[1], a.matches_word_groups_func[1])
         ELSE a.new_titles[1]
    ELSE <<>>

\* lines 102-132: the groups built from the filtered new titles
NewTitleGroups(a) ==
    LET filtered == FilteredNewTitles(a)
        group(entry) ==
            LET source_name == Get(a.id_to_name[1], entry.source_id, entry.source_id)
            IN  [source_id |-> entry.source_id,
                 source_name |-> source_name,
                 titles |-> [k \in 1..Len(entry.titles) |->
                    [title |-> entry.titles[k].title,
                     source_name |-> source_name,
                     time_display |-> <<>>,
                     count |-> 1,
                     ranks |-> Get(entry.titles[k].data, "ranks", <<>>),
                     rank_threshold |-> a.rank_threshold,
                     url |-> Get(entry.titles[k].data, "url", <<>>),
                     mobile_url |-> Get(entry.titles[k].data, "mobileUrl", <<>>),
                     is_new |-> TRUE]]]
    IN  IF filtered # <<>> /\ Truthy(a.id_to_name)
        THEN SelectSeq([k \in 1..Len(filtered) |-> group(filtered[k])],
                       LAMBDA g : g.titles # <<>>)
        ELSE <<>>

\* lines 73-132; the mutant builds the new-titles section in every mode
processed_new_titles_any_mode(a) == NewTitleGroups(a)

processed_new_titles(a) ==
    IF a.mode = "incremental" THEN <<>> ELSE NewTitleGroups(a)

\* lines 134-161
processed_stats(a) ==
    LET processed(stat) ==
            [word |-> stat.word,
             count |-> stat.count,
             percentage |-> Get(stat, "percentage", 0),
             titles |-> [k \in 1..Len(stat.titles) |->
                LET title_data == stat.titles[k]
                IN  [title |-> title_data.title,
                     source_name |-> title_data.source_name,
                     time_display |-> title_data.time_display,
                     count |-> title_data.count,
                     ranks |-> title_data.ranks,
                     rank_threshold |-> title_data.rank_threshold,
                     url |-> Get(title_data, "url", <<>>),
                     mobile_url |-> Get(title_data, "mobileUrl", <<>>),
                     is_new |-> Get(title_data, "is_new", FALSE)]]]
        kept == SelectSeq(a.stats, LAMBDA stat : ~(stat.count <= 0))
    IN  [k \in 1..Len(kept) |-> processed(kept[k])]

NewHotspot == <<"xin", "zeng", "re", "dian">>

\* lines 168-192
all_news_items(stats_, new_titles_) ==
    LET item(title_data, keyword) ==
            [title |-> title_data.title,
             content |-> Get(title_data, "content", <<>>),
             url |-> Get(title_data, "url", <<>>),
             source |-> Get(title_data, "source_name", <<>>),
             keyword |-> keyword]
    IN  Flatten([k \in 1..Len(stats_) |->
            [j \in 1..Len(stats_[k].titles) |->
                item(stats_[k].titles[j], stats_[k].word)]])
        \o Flatten([k \in 1..Len(new_titles_) |->
            [j \in 1..Len(new_titles_[k].titles) |->
                item(new_titles_[k].titles[j], NewHotspot)]])

\* sum(len(source["titles"]) for source in processed_new_titles)
TotalNewCount(new_titles_) ==
    SumSeq([k \in 1..Len(new_titles_) |-> Len(new_titles_[k].titles)])

\* lines 217-224
StandardPayload(a, stats_, new_titles_) ==
    [stats |-> stats_,
     new_titles |-> new_titles_,
     failed_ids |-> IF Truthy(a.failed_ids) THEN a.failed_ids[1] ELSE <<>>,
     total_new_count |-> TotalNewCount(new_titles_)]

\* lines 205-215
AiPayload(a, stats_, new_titles_, formatted_content, categorized) ==
    [stats |-> stats_,
     new_titles |-> new_titles_,
     failed_ids |-> IF Truthy(a.failed_ids) THEN a.failed_ids[1] ELSE <<>>,
     total_new_count |-> TotalNewCount(new_titles_),
     ai_processed |-> TRUE,
     ai_content |-> formatted_content,
     ai_categories |-> categorized]

\* lines 52-71: the processor, when ai_config is given
NoProcessor == [enabled |-> FALSE, client |-> None]

ai_processor(a) ==
    IF a.ai_config # NoneArg /\ DOMAIN a.ai_config[1] # {}
    THEN AIProcessorInit(a.ai_config[1], a.api_key_set)
    ELSE NoProcessor

\* lines 52-195: up to the call of process_news_list, or to the return of
\* the standard payload when there is nothing to enrich
PrepareReportDataStart ==
    /\ pc = "prepare_report_data"
    /\ LET stats_ == processed_stats(args)
           new_   == processed_new_titles(args)
           items  == all_news_items(stats_, new_)
       IN  IF config.enabled /\ items # <<>>
           THEN /\ pc' = "process_news_list"
                /\ news_list' = items
                /\ report' = [stage |-> "enriching", stats |-> stats_,
                              new_titles |-> new_, all_news_items |-> items]
           ELSE /\ pc' = "returned"
                /\ news_list' = news_list
                /\ report' = [stage |-> "returned",
                              payload |-> StandardPayload(args, stats_, new_)]
    /\ UNCHANGED <<args, config, failures, processed_list, categorized_news,
                   video_text, fn_arg, fn_ret>>

\* lines 196-224: process_news_list has run its loop; categorize, render when
\* video_format is set, and return
PrepareReportDataFinish ==
    /\ pc = "process_news_list"
    /\ report.stage = "enriching"
    /\ Len(failures) = Len(news_list)
    /\ LET categorized == categorize_news(processed_list)
       IN  /\ categorized_news' = categorized
           /\ IF config.video_format
              THEN LET formatted == format_for_video(config, categorized)
                   IN  /\ video_text' = formatted
                       /\ report' = [stage |-> "returned",
                                     payload |-> AiPayload(args, report.stats,
                                                           report.new_titles,
                                                           formatted, categorized)]
              ELSE /\ video_text' = video_text
                   /\ report' = [stage |-> "returned",
                                 payload |-> StandardPayload(args, report.stats,
                                                             report.new_titles)]
    /\ pc' = "returned"
    /\ UNCHANGED <<args, config, news_list, failures, processed_list, fn_arg, fn_ret>>

(***************************************************************************)
(* Inputs of prepare_report_data                                           *)
(***************************************************************************)
MaxStats == 1
MaxNewTitles == 2

TitlePool == <<StrAI, StrSteam, StrGPU, StrPhone>>

StatTitle(t) ==
    [title |-> t, source_name |-> <<"n">>, time_display |-> <<>>, count |-> 1,
     ranks |-> <<1>>, rank_threshold |-> RankThresholdDefault, url |-> StrUrl]

StatPool ==
    { [word |-> <<"w">>, count |-> 0, titles |-> <<StatTitle(StrAI)>>],
      [word |-> <<"w">>, count |-> 1, titles |-> <<StatTitle(StrPlain)>>] }

SourceIds == <<"s1", "s2">>

\* the source source_id with its first n titles of the pool
SourceEntry(source_id, n) ==
    [source_id |-> source_id,
     titles |-> [k \in 1..Min(n, Len(TitlePool)) |->
                   [title |-> TitlePool[k],
                    data |-> [url |-> StrUrl, ranks |-> <<1>>]]]]

\* None, or the first sources of SourceIds with at most MaxNewTitles titles
\* in all
NewTitlesInputs ==
    {NoneArg} \cup
    {Some([k \in 1..m |-> SourceEntry(SourceIds[k], n[k])]) :
        m \in 0..Len(SourceIds), n \in [1..Len(SourceIds) -> 0..MaxNewTitles]}

CountNewTitles(opt) ==
    IF opt = NoneArg THEN 0
    ELSE SumSeq([k \in 1..Len(opt[1]) |-> Len(opt[1][k].titles)])

IdToNameInputs == {NoneArg, Some(<<>>), Some([id \in {"s1"} |-> <<"N", "1">>])}

\* the sets of titles a supplied predicate accepts
FilterInputs == {NoneArg, Some({StrAI}), Some({})}

AiConfigInputs ==
    {NoneArg} \cup
    {Some(c) : c \in [enabled : BOOLEAN, video_format : BOOLEAN]}

ReportArgs ==
    {a \in [stats : SeqsUpTo(StatPool, MaxStats),
            failed_ids : {NoneArg, Some(<<"f1">>)},
            new_titles : NewTitlesInputs,
            id_to_name : IdToNameInputs,
            mode : {"daily", "incremental", "current"},
            rank_threshold : {RankThresholdDefault},
            matches_word_groups_func : FilterInputs,
            load_frequency_words_func : {NoneArg, Some("loader")},
            ai_config : AiConfigInputs,
            api_key_set : BOOLEAN] :
        /\ CountNewTitles(a.new_titles) <= MaxNewTitles
        /\ (a.load_frequency_words_func = NoneArg
              => a.matches_word_groups_func # Some({}))}

Init ==
    /\ pc = "prepare_report_data"
    /\ args \in ReportArgs
    /\ config = ai_processor(args)
    /\ news_list = <<>>
    /\ failures = <<>>
    /\ processed_list = <<>>
    /\ categorized_news = <<>>
    /\ video_text = <<>>
    /\ report = [stage |-> "called"]
    /\ fn_arg = NoFn
    /\ fn_ret = NoFn

Next ==
    \/ PrepareReportDataStart
    \/ ProcessNewsListStep
    \/ PrepareReportDataFinish

Spec == Init /\ [][Next]_vars

(***************************************************************************)
(* ZhipuClient called directly: one call of generate_title,                *)
(* generate_summary or generate_tag, on a service that answers with a text *)
(* of up to MaxTextLen characters or errors.                               *)
(***************************************************************************)
MaxTextLen == 40
MaxLength == 31

Text(n) == [k \in 1..n |-> "a"]
Texts == {Text(n) : n \in 0..MaxTextLen}

\* the service's answers: a text, bare or with white space around it
ServiceAnswers ==
    {Ok(t) : t \in Texts} \cup {Ok(<<" ">> \o t \o <<"\n">>) : t \in Texts}

ClientCalls ==
    [name : {"generate_title", "generate_summary"}, content : {StrGPU},
     title : {StrAI}, max_length : 0..MaxLength, outcome : ServiceAnswers]
    \cup
    [name : {"generate_title", "generate_summary"}, content : Texts,
     title : Texts, max_length : {TagPrefixLen, TitleLengthDefault},
     outcome : {ServiceError}]
    \cup
    [name : {"generate_tag"}, content : {StrGPU},
     title : {StrAI, StrPlain, Text(TagPrefixLen + 1)},
     outcome : {Ok(<<"#", "t", " ">>), Ok(<<" ", "t", "#">>), ServiceError}]

InitClient ==
    /\ pc = "client_call"
    /\ fn_arg \in ClientCalls
    /\ fn_ret = NoFn
    /\ args = <<>>
    /\ config = NoProcessor
    /\ news_list = <<>>
    /\ failures = <<>>
    /\ processed_list = <<>>
    /\ categorized_news = <<>>
    /\ video_text = <<>>
    /\ report = NoReport

GenerateTitle ==
    /\ pc = "client_call"
    /\ fn_arg.name = "generate_title"
    /\ fn_ret' = generate_title(fn_arg.content, fn_arg.title, fn_arg.max_length,
                                fn_arg.outcome)
    /\ pc' = "client_returned"
    /\ UNCHANGED <<args, config, news_list, failures, processed_list,
                   categorized_news, video_text, report, fn_arg>>

GenerateSummary ==
    /\ pc = "client_call"
    /\ fn_arg.name = "generate_summary"
    /\ fn_ret' = generate_summary(fn_arg.content, fn_arg.title, fn_arg.max_length,
                                  fn_arg.outcome)
    /\ pc' = "client_returned"
    /\ UNCHANGED <<args, config, news_list, failures, processed_list,
                   categorized_news, video_text, report, fn_arg>>

GenerateTag ==
    /\ pc = "client_call"
    /\ fn_arg.name = "generate_tag"
    /\ fn_ret' = generate_tag(fn_arg.content, fn_arg.title, fn_arg.outcome)
    /\ pc' = "client_returned"
    /\ UNCHANGED <<args, config, news_list, failures, processed_list,
                   categorized_news, video_text, report, fn_arg>>

NextClient == GenerateTitle \/ GenerateSummary \/ GenerateTag

SpecClient == InitClient /\ [][NextClient]_vars

(***************************************************************************)
(* notification/formatters.py.  re.sub(pattern, repl, text) scans text     *)
(* from the left: where the pattern matches, the match is replaced and the *)
(* scan goes on after it; elsewhere the character is kept.  A matcher      *)
(* gives, for a start position i of s, the length of the match there (0    *)
(* for none) and its replacement.                                          *)
(***************************************************************************)
NoMatch == [len |-> 0, repl |-> <<>>]

RECURSIVE Rewrite(_, _, _)
Rewrite(s, i, m) ==
    IF i > Len(s) THEN <<>>
    ELSE IF m[i].len > 0 THEN m[i].repl \o Rewrite(s, i + m[i].len, m)
    ELSE <<s[i]>> \o Rewrite(s, i + 1, m)

SetMin(S) == CHOOSE x \in S : \A y \in S : x <= y
SetMax(S) == CHOOSE x \in S : \A y \in S : x >= y

\* s[i-1:i-1+len(lit)] == lit
At(s, i, lit) == i + Len(lit) - 1 <= Len(s) /\ SubSeq(s, i, i + Len(lit) - 1) = lit

\* "." matches every character of s[from-1:to]
NoNewline(s, from, to) == \A j \in from..to : s[j] # "\n"

\* the lengths e >= 1 for which (.+?) starting at from can be followed by
\* the literal close
LazyLengths(s, from, close) ==
    {e \in 1..(Len(s) - from + 1) :
        NoNewline(s, from, from + e - 1) /\ At(s, from + e, close)}

\* open(.+?)close -> \1, open and close literal
DelimitedAt(s, i, open, close) ==
    IF At(s, i, open)
    THEN LET from == i + Len(open)
             E == LazyLengths(s, from, close)
         IN  IF E = {} THEN NoMatch
             ELSE [len |-> Len(open) + SetMin(E) + Len(close),
                   repl |-> SubSeq(s, from, from + SetMin(E) - 1)]
    ELSE NoMatch

SubDelimited(s, open, close) ==
    Rewrite(s, 1, [i \in 1..Len(s) |-> DelimitedAt(s, i, open, close)])

\* the first position >= from holding c, 0 when there is none
FirstIndexOf(s, from, c) ==
    LET P == {j \in from..Len(s) : s[j] = c}
    IN  IF P = {} THEN 0 ELSE SetMin(P)

\* \[([^\]]+)\]\(([^)]+)\): the text, the url and the length of the match
LinkAt(s, i) ==
    IF At(s, i, <<"[">>)
    THEN LET close == FirstIndexOf(s, i + 1, "]")
             paren == IF close > i + 1 /\ At(s, close + 1, <<"(">>)
                      THEN FirstIndexOf(s, close + 2, ")") ELSE 0
         IN  IF paren > close + 2
             THEN [len |-> paren - i + 1,
                   text |-> SubSeq(s, i + 1, close - 1),
                   url |-> SubSeq(s, close + 2, paren - 1)]
             ELSE [len |-> 0]
    ELSE [len |-> 0]

\* [text](url) -> text url
StripLinkAt(s, i) ==
    LET l == LinkAt(s, i)
    IN  IF l.len = 0 THEN NoMatch
        ELSE [len |-> l.len, repl |-> l.text \o <<" ">> \o l.url]

\* !\[(.+?)\]\(.+?\) -> \1
ImageAt(s, i) ==
    IF At(s, i, <<"!", "[">>)
    THEN LET from == i + 2
             \* the lengths of the alt text after which ]( and a lazy url and )
             \* can follow
             E == {e \in LazyLengths(s, from, <<"]", "(">>) :
                      LazyLengths(s, from + e + 2, <<")">>) # {}}
         IN  IF E = {} THEN NoMatch
             ELSE LET e == SetMin(E)
                      u == SetMin(LazyLengths(s, from + e + 2, <<")">>))
                  IN  [len |-> 2 + e + 2 + u + 1,
                       repl |-> SubSeq(s, from, from + e - 1)]
    ELSE NoMatch

\* ^ under re.MULTILINE
LineStart(s, i) == i = 1 \/ s[i - 1] = "\n"

\* the length of the longest run of characters of C from position from
RECURSIVE RunLength(_, _, _)
RunLength(s, from, C) ==
    IF from <= Len(s) /\ s[from] \in C THEN 1 + RunLength(s, from + 1, C) ELSE 0

\* \s of a str pattern, over the characters the texts use
ReWhitespace == {" ", "\n", "\t"}

\* ^>\s* -> ''
QuoteAt(s, i) ==
    IF LineStart(s, i) /\ s[i] = ">"
    THEN [len |-> 1 + RunLength(s, i + 1, ReWhitespace), repl |-> <<>>]
    ELSE NoMatch

\* ^#+\s* -> ''
HeadingAt(s, i) ==
    IF LineStart(s, i) /\ s[i] = "#"
    THEN LET h == RunLength(s, i, {"#"})
         IN  [len |-> h + RunLength(s, i + h, ReWhitespace), repl |-> <<>>]
    ELSE NoMatch

\* ^[\-\*]{3,}\s*$ -> '': the rule characters, then the longest white space
\* that ends at the end of the text or right before a newline
RuleAt(s, i) ==
    IF LineStart(s, i)
    THEN LET r == RunLength(s, i, {"-", "*"})
             w == RunLength(s, i + r, ReWhitespace)
             K == {k \in 0..w : \/ i + r + k > Len(s)
                                \/ s[i + r + k] = "\n"}
         IN  IF r >= 3 /\ K # {}
             THEN [len |-> r + SetMax(K), repl |-> <<>>]
             ELSE NoMatch
    ELSE NoMatch

StrFontOpen == <<"<", "f", "o", "n", "t">>
StrFontClose == <<"<", "/", "f", "o", "n", "t", ">">>

\* <font[^>]*>(.+?)</font> -> \1
FontAt(s, i) ==
    IF At(s, i, StrFontOpen)
    THEN LET gt == FirstIndexOf(s, i + Len(StrFontOpen), ">")
             E  == IF gt = 0 THEN {} ELSE LazyLengths(s, gt + 1, StrFontClose)
         IN  IF E = {} THEN NoMatch
             ELSE [len |-> gt - i + 1 + SetMin(E) + Len(StrFontClose),
                   repl |-> SubSeq(s, gt + 1, gt + SetMin(E))]
    ELSE NoMatch

\* <[^>]+> -> ''
TagAt(s, i) ==
    IF s[i] = "<"
    THEN LET gt == FirstIndexOf(s, i + 1, ">")
         IN  IF gt > i + 1 THEN [len |-> gt - i + 1, repl |-> <<>>] ELSE NoMatch
    ELSE NoMatch

\* \n{3,} -> \n\n
BlankLinesAt(s, i) ==
    LET r == RunLength(s, i, {"\n"})
    IN  IF r >= 3 THEN [len |-> r, repl |-> <<"\n", "\n">>] ELSE NoMatch

\* [text](url) -> <url|text>
MrkdwnLinkAt(s, i) ==
    LET l == LinkAt(s, i)
    IN  IF l.len = 0 THEN NoMatch
        ELSE [len |-> l.len,
              repl |-> <<"<">> \o l.url \o <<"|">> \o l.text \o <<">">>]

\* \*\*([^*]+)\*\* -> *\1*
MrkdwnBoldAt(s, i) ==
    IF At(s, i, <<"*", "*">>)
    THEN LET r == RunLength(s, i + 2, {c \in {s[j] : j \in 1..Len(s)} : c # "*"})
         IN  IF r >= 1 /\ At(s, i + 2 + r, <<"*", "*">>)
             THEN [len |-> r + 4,
                   repl |-> <<"*">> \o SubSeq(s, i + 2, i + 1 + r) \o <<"*">>]
             ELSE NoMatch
    ELSE NoMatch

\* the match of one substitution pass at position i
MatchAt(pattern, s, i) ==
    CASE pattern = "link"        -> StripLinkAt(s, i)
      [] pattern = "image"       -> ImageAt(s, i)
      [] pattern = "quote"       -> QuoteAt(s, i)
      [] pattern = "heading"     -> HeadingAt(s, i)
      [] pattern = "rule"        -> RuleAt(s, i)
      [] pattern = "font"        -> FontAt(s, i)
      [] pattern = "tag"         -> TagAt(s, i)
      [] pattern = "blank_lines" -> BlankLinesAt(s, i)
      [] pattern = "mrkdwn_link" -> MrkdwnLinkAt(s, i)
      [] pattern = "mrkdwn_bold" -> MrkdwnBoldAt(s, i)

\* re.sub(pattern, repl, s)
Sub(pattern, s) ==
    Rewrite(s, 1, [i \in 1..Len(s) |-> MatchAt(pattern, s, i)])

\* the backquote character, which a TLA+ string cannot hold
BackQuote == "backquote"

strip_markdown(text) ==
    LET t1  == SubDelimited(text, <<"*", "*">>, <<"*", "*">>)
        t2  == SubDelimited(t1, <<"_", "_">>, <<"_", "_">>)
        t3  == SubDelimited(t2, <<"*">>, <<"*">>)
        t4  == SubDelimited(t3, <<"_">>, <<"_">>)
        t5  == SubDelimited(t4, <<"~", "~">>, <<"~", "~">>)
        t6  == Sub("link", t5)
        t7  == Sub("image", t6)
        t8  == SubDelimited(t7, <<BackQuote>>, <<BackQuote>>)
        t9  == Sub("quote", t8)
        t10 == Sub("heading", t9)
        t11 == Sub("rule", t10)
        t12 == Sub("font", t11)
        t13 == Sub("tag", t12)
        t14 == Sub("blank_lines", t13)
    IN  Strip(t14)

convert_markdown_to_mrkdwn(content) ==
    Sub("mrkdwn_bold", Sub("mrkdwn_link", content))

(***************************************************************************)
(* The formatters applied to a text: strip_markdown, applied once more to  *)
(* its own result, and convert_markdown_to_mrkdwn.  A text is up to        *)
(* MaxFragments pieces of markdown put one after the other.                *)
(***************************************************************************)
MaxFragments == 3

Fragments ==
    { <<"*", "*">>, <<"*">>, <<"_">>, <<"~", "~">>,
      <<"[", "x", "]", "(", "u", ")">>,
      <<"!", "[", "x", "]", "(", "u", ")">>,
      <<BackQuote>>, <<"<">>, <<">">>, <<"#">>, <<"-", "-", "-">>,
      <<"\n">>, <<" ">>, <<"a">>, <<"a", "*", "b">> }

MarkdownTexts == {Flatten(q) : q \in SeqsUpTo(Fragments, MaxFragments)}

InitFormat ==
    /\ pc = "format_call"
    /\ fn_arg \in [name : {"strip_markdown", "convert_markdown_to_mrkdwn"},
                    text : MarkdownTexts]
    /\ fn_ret = NoFn
    /\ args = <<>>
    /\ config = NoProcessor
    /\ news_list = <<>>
    /\ failures = <<>>
    /\ processed_list = <<>>
    /\ categorized_news = <<>>
    /\ video_text = <<>>
    /\ report = NoReport

StripMarkdown ==
    /\ pc = "format_call"
    /\ fn_arg.name = "strip_markdown"
    /\ fn_ret' = [name |-> "strip_markdown", value |-> strip_markdown(fn_arg.text)]
    /\ pc' = "formatted"
    /\ UNCHANGED <<args, config, news_list, failures, processed_list,
                   categorized_news, video_text, report, fn_arg>>

\* strip_markdown called on the text it returned
StripMarkdownAgain ==
    /\ pc = "formatted"
    /\ fn_ret.name = "strip_markdown"
    /\ fn_ret' = [name |-> "strip_markdown", value |-> fn_ret.value,
                  again |-> strip_markdown(fn_ret.value)]
    /\ pc' = "formatted_again"
    /\ UNCHANGED <<args, config, news_list, failures, processed_list,
                   categorized_news, video_text, report, fn_arg>>

ConvertMarkdownToMrkdwn ==
    /\ pc = "format_call"
    /\ fn_arg.name = "convert_markdown_to_mrkdwn"
    /\ fn_ret' = [name |-> "convert_markdown_to_mrkdwn",
                  value |-> convert_markdown_to_mrkdwn(fn_arg.text)]
    /\ pc' = "formatted"
    /\ UNCHANGED <<args, config, news_list, failures, processed_list,
                   categorized_news, video_text, report, fn_arg>>

NextFormat == StripMarkdown \/ StripMarkdownAgain \/ ConvertMarkdownToMrkdwn

SpecFormat == InitFormat /\ [][NextFormat]_vars

(***************************************************************************)
(* Claims about AIProcessor (SpecProcessor)                                *)
(***************************************************************************)
Returned_process_news_list == pc # "process_news_list"
Returned_categorize_news == pc = "format_for_video"

\* out is in_ with exactly the four enrichment fields added
IsEnrichedCopy(out, in_) ==
    /\ DOMAIN out = DOMAIN in_ \cup AiFields
    /\ \A k \in DOMAIN in_ : out[k] = in_[k]

\* C1: process_news_list returns a list as long as its input, and position i
\* holds input item i itself or its enriched copy (the item itself whenever
\* the enrichment failed or is disabled), for every pattern of failures.
C1_SameLengthSameOrder ==
    Returned_process_news_list =>
        /\ Len(processed_list) = Len(args.news_list)
        /\ \A i \in 1..Len(processed_list) :
              /\ \/ processed_list[i] = args.news_list[i]
                 \/ IsEnrichedCopy(processed_list[i], args.news_list[i])
              /\ (~config.enabled \/ failures[i] # "none")
                    => processed_list[i] = args.news_list[i]

C1_Witness ==
    /\ Returned_process_news_list
    /\ config.enabled
    /\ Len(args.news_list) >= 2
    /\ \E i, j \in 1..Len(failures) :
          /\ failures[i] # "none"
          /\ failures[j] = "none"
          /\ IsEnrichedCopy(processed_list[j], args.news_list[j])

\* C2: an item returned by process_news_item carries all of ai_title,
\* ai_summary, ai_tag and original_title (the input title) or none of them;
\* it is the unmodified input when any of the three calls raised; the input
\* item is never changed.
C2_AllOrNothing ==
    /\ news_list = args.news_list
    /\ \A i \in 1..Len(failures) :
          LET out == processed_list[i]
              in_ == args.news_list[i]
          IN  /\ \/ AiFields \cap DOMAIN out = {}
                 \/ AiFields \subseteq DOMAIN out /\ out.original_title = in_.title
              /\ failures[i] # "none" => out = in_

C2_Witness ==
    /\ \E i \in 1..Len(failures) : failures[i] = "generate_tag"
    /\ \E i \in 1..Len(failures) : AiFields \subseteq DOMAIN processed_list[i]

\* the items of list at the positions that f sends to key, in order
RECURSIVE ItemsSentTo(_, _, _)
ItemsSentTo(list, f, key) ==
    IF list = <<>> THEN <<>>
    ELSE LET n == Len(list)
             front == ItemsSentTo(SubSeq(list, 1, n - 1), f, key)
         IN  IF f[n] = key THEN Append(front, list[n]) ELSE front

\* C3: categorize_news is a stable partition: some assignment of the input
\* positions to the three buckets gives every bucket exactly its items in
\* input order, so the sizes sum to the input length.
C3_StablePartition ==
    Returned_categorize_news =>
        /\ DOMAIN categorized_news = CategoryKeySet
        /\ \E f \in [1..Len(processed_list) -> CategoryKeySet] :
              \A key \in CategoryKeySet :
                 categorized_news[key] = ItemsSentTo(processed_list, f, key)
        /\ Len(categorized_news["KejiAI"]) + Len(categorized_news["YouxiYule"])
             + Len(categorized_news["YingjianShuma"]) = Len(processed_list)

C3_Witness ==
    /\ Returned_categorize_news
    /\ Len(processed_list) >= 2
    /\ \E key \in CategoryKeySet :
          /\ Len(categorized_news[key]) >= 2
          /\ categorized_news[key][1] # categorized_news[key][2]

\* the matching text as the claim words it: a raw field is used only when
\* the enriched field is absent
TextIfAbsent(item) ==
    (IF "ai_title" \in DOMAIN item THEN item.ai_title ELSE Get(item, "title", <<>>))
    \o <<" ">>
    \o (IF "ai_summary" \in DOMAIN item THEN item.ai_summary
        ELSE Get(item, "content", <<>>))

\* the matching text with a raw field used when the enriched field is absent
\* or empty
TextIfAbsentOrEmpty(item) ==
    (IF "ai_title" \in DOMAIN item /\ item.ai_title # <<>>
     THEN item.ai_title ELSE Get(item, "title", <<>>))
    \o <<" ">>
    \o (IF "ai_summary" \in DOMAIN item /\ item.ai_summary # <<>>
        THEN item.ai_summary ELSE Get(item, "content", <<>>))

HasTech(text) == \E k \in 1..Len(tech_keywords) : Contains(text, tech_keywords[k])
HasGame(text) == \E k \in 1..Len(game_keywords) : Contains(text, game_keywords[k])
HasHardware(text) ==
    \E k \in 1..Len(hardware_keywords) : Contains(text, hardware_keywords[k])

\* first match in the order tech, gaming, hardware; tech when nothing matches
FirstMatch(text) ==
    IF HasTech(text) THEN "KejiAI"
    ELSE IF HasGame(text) THEN "YouxiYule"
    ELSE IF HasHardware(text) THEN "YingjianShuma"
    ELSE "KejiAI"

\* C4 as stated: every item is in the bucket that the priority order gives
\* on the text built from the enriched title (raw title if absent) and the
\* enriched summary (raw content if absent).
C4_AsStated ==
    Returned_categorize_news =>
        \A key \in CategoryKeySet :
           categorized_news[key] =
              SelectSeq(processed_list, LAMBDA it : FirstMatch(TextIfAbsent(it)) = key)

\* C4 amended: the same, on the text built from the enriched title (raw
\* title if absent or empty) and the enriched summary (raw content if absent
\* or empty).
C4_FirstMatchPriority ==
    Returned_categorize_news =>
        \A key \in CategoryKeySet :
           categorized_news[key] =
              SelectSeq(processed_list,
                        LAMBDA it : FirstMatch(TextIfAbsentOrEmpty(it)) = key)

\* an item with both a tech and a gaming keyword sits in the tech bucket
\* beside a gaming-only item in the gaming bucket
C4_Witness ==
    /\ Returned_categorize_news
    /\ \E i \in 1..Len(categorized_news["KejiAI"]) :
          LET text == TextIfAbsentOrEmpty(categorized_news["KejiAI"][i])
          IN  Contains(text, StrAI) /\ Contains(text, StrSteam)
    /\ \E i \in 1..Len(categorized_news["YouxiYule"]) :
          LET text == TextIfAbsentOrEmpty(categorized_news["YouxiYule"][i])
          IN  ~HasTech(text) /\ HasGame(text) /\ "ai_title" \in DOMAIN categorized_news["YouxiYule"][i]

\* the headers and item numbers of a rendered text, in order: 0 for a
\* header, i for the block numbered i
RECURSIVE ListingShape(_)
ListingShape(text) ==
    IF text = <<>> THEN <<>>
    ELSE LET rest == ListingShape(Tail(text))
         IN  CASE Head(text).kind = "header"   -> <<0>> \o rest
               [] Head(text).kind = "numbered" -> <<Head(text).index>> \o rest
               [] OTHER -> rest

\* C6: rendering the output of categorize_news on a non-empty list gives,
\* per non-empty bucket in the fixed order, a header and then one block per
\* item of the bucket, numbered from 1.
C6_EveryCategorizedItemListed ==
    (pc = "done" /\ processed_list # <<>>) =>
        ListingShape(video_text) =
            Flatten([c \in 1..Len(CategoryKeys) |->
                LET bucket == categorized_news[CategoryKeys[c]]
                IN  IF bucket = <<>> THEN <<>>
                    ELSE <<0>> \o [i \in 1..Len(bucket) |-> i]])

\* C7: format_for_video returns the "no content" sentinel whenever the
\* categorized input holds no item, the three empty buckets of
\* categorize_news([]) included.
C7_NoContentSentinel ==
    (pc = "done" /\ \A key \in DOMAIN categorized_news : categorized_news[key] = <<>>)
        => video_text = NoContent

(***************************************************************************)
(* Claims about the storyboard (SpecRender)                                *)
(***************************************************************************)
Seconds(clock) == clock.minutes * 60 + clock.seconds

Shots(text) == SelectSeq(text, LAMBDA l : l.kind = "shot")
Totals(text) == SelectSeq(text, LAMBDA l : l.kind = "total")

\* the categories of category_order that hold at least one item, in order
NonEmptyCategories(categorized) ==
    SelectSeq(category_order, LAMBDA c : c \in DOMAIN categorized
                                         /\ Len(categorized[c]) > 0)

StoryboardRendered ==
    pc = "done" /\ config.generate_storyboard /\ DOMAIN categorized_news # {}

\* C5: after the 5 s opening every non-empty bucket, in the fixed order, has
\* one shot of min(30, 8 * item_count) s starting where the previous shot
\* ended; an empty bucket has no shot; the closing shot lasts 5 s from the
\* final offset; the footer total is 10 s plus the bucket durations; buckets
\* of 1, 5 and 10 items give 8, 30, 30 and 78 s.
C5_StoryboardTiming ==
    StoryboardRendered =>
        LET shots == Shots(video_text)
            cats  == NonEmptyCategories(categorized_news)
            n     == Len(cats)
            count(k) == Len(categorized_news[cats[k]])
            capped(k) == IF 8 * count(k) < 30 THEN 8 * count(k) ELSE 30
            durations == [k \in 1..n |-> capped(k)]
            total == Totals(video_text)
        IN  /\ Len(shots) = n + 2
            /\ Seconds(shots[1].start) = 0 /\ Seconds(shots[1].end) = 5
            /\ \A k \in 1..n :
                  /\ shots[k + 1].name = cats[k]
                  /\ Seconds(shots[k + 1].start) = Seconds(shots[k].end)
                  /\ Seconds(shots[k + 1].end) - Seconds(shots[k + 1].start)
                       = capped(k)
            /\ shots[n + 2].name = "closing"
            /\ Seconds(shots[n + 2].start) = Seconds(shots[n + 1].end)
            /\ Seconds(shots[n + 2].end) = Seconds(shots[n + 2].start) + 5
            /\ Len(total) = 1
            /\ Seconds(total[1].duration) = 10 + SumSeq(durations)
            /\ \A k \in 1..(n + 2) :
                  shots[k].start.seconds < 60 /\ shots[k].end.seconds < 60
            /\ (n = 3 /\ count(1) = 1 /\ count(2) = 5 /\ count(3) = 10)
                  => /\ durations = <<8, 30, 30>>
                     /\ total[1].duration = [minutes |-> 1, seconds |-> 18]

C5_Witness ==
    /\ StoryboardRendered
    /\ DOMAIN categorized_news = CategoryOrderSet
    /\ Len(categorized_news["KejiAILei"]) = 1
    /\ Len(categorized_news["YouxiYuleLei"]) = 5
    /\ Len(categorized_news["YingjianShumaLei"]) = 10
    /\ Len(Shots(video_text)) = 5

(***************************************************************************)
(* Claims about prepare_report_data (Spec)                                 *)
(***************************************************************************)
\* C8: with mode = "incremental" the payload has new_titles == [] and
\* total_new_count == 0, on the standard and on the ai_processed return.
C8_IncrementalHidesNewTitles ==
    (pc = "returned" /\ args.mode = "incremental") =>
        /\ report.payload.new_titles = <<>>
        /\ report.payload.total_new_count = 0

C8_Witness ==
    /\ pc = "returned"
    /\ args.mode = "incremental"
    /\ CountNewTitles(args.new_titles) = MaxNewTitles
    /\ Truthy(args.id_to_name)
    /\ args.matches_word_groups_func = NoneArg
    /\ "ai_processed" \in DOMAIN report.payload
    /\ report.payload.new_titles = <<>>

(***************************************************************************)
(* Claims about ZhipuClient (SpecClient)                                   *)
(***************************************************************************)
\* the service's text as generate_title and generate_summary read it
\* (response...content.strip())
ServiceText == Strip(fn_arg.outcome.text)

TruncatingCall ==
    /\ pc = "client_returned"
    /\ fn_arg.name \in {"generate_title", "generate_summary"}
    /\ fn_arg.outcome.kind = "ok"
    /\ Len(ServiceText) > fn_arg.max_length

\* C9: for every max_length and every service text longer than max_length,
\* generate_title and generate_summary return its first max_length - 3
\* characters followed by the ellipsis, a text of exactly max_length
\* characters.
C9_TruncatedToMaxLength ==
    TruncatingCall =>
        /\ ~fn_ret.raised
        /\ fn_ret.value = SubSeq(ServiceText, 1, fn_arg.max_length - 3) \o Ellipsis
        /\ Len(fn_ret.value) = fn_arg.max_length

(***************************************************************************)
(* Claims about the formatters (SpecFormat)                                *)
(***************************************************************************)
\* C10: strip_markdown is idempotent: applied to its own result it returns
\* that result.
C10_StripMarkdownIdempotent ==
    pc = "formatted_again" => fn_ret.again = fn_ret.value

\* a bold **x** as the claim reads it: x is not empty, neither starts nor
\* ends with an asterisk and holds no double asterisk; it may hold a single
\* one, as in **a*b**
BoldAsClaimedAt(s, i) ==
    IF At(s, i, <<"*", "*">>)
    THEN LET from == i + 2
             E == {e \in 1..(Len(s) - from + 1) :
                     /\ s[from] # "*"
                     /\ s[from + e - 1] # "*"
                     /\ \A j \in from..(from + e - 2) :
                           ~At(s, j, <<"*", "*">>)
                     /\ At(s, from + e, <<"*", "*">>)}
         IN  IF E = {} THEN NoMatch
             ELSE [len |-> SetMin(E) + 4,
                   repl |-> <<"*">> \o SubSeq(s, from, from + SetMin(E) - 1)
                            \o <<"*">>]
    ELSE NoMatch

\* every link rewritten, then every bold, every other character kept
MrkdwnAsClaimed(text) ==
    LET linked == Sub("mrkdwn_link", text)
    IN  Rewrite(linked, 1,
                [i \in 1..Len(linked) |-> BoldAsClaimedAt(linked, i)])

Converted ==
    pc = "formatted" /\ fn_ret.name = "convert_markdown_to_mrkdwn"

\* C11: convert_markdown_to_mrkdwn rewrites every link [x](u) to <u|x> and
\* every bold **x** to *x* and leaves every other character unchanged.
C11_EveryLinkAndBoldRewritten ==
    Converted => fn_ret.value = MrkdwnAsClaimed(fn_arg.text)

(***************************************************************************)
(* Claims about the payload of prepare_report_data (Spec)                  *)
(***************************************************************************)
\* the payload returned for the same arguments with enrichment disabled
DisabledPayload ==
    StandardPayload(args, processed_stats(args), processed_new_titles(args))

\* enrichment ran and failed on every item
EveryEnrichmentFailed ==
    /\ pc = "returned"
    /\ config.enabled
    /\ failures # <<>>
    /\ \A i \in 1..Len(failures) : failures[i] # "none"

\* C12: when enrichment is enabled and fails on every item, the payload is
\* the one returned with enrichment disabled: same keys, same values, no
\* ai_processed, ai_content or ai_categories.
C12_TotalFailureAsDisabled ==
    EveryEnrichmentFailed => report.payload = DisabledPayload

(***************************************************************************)
(* Claims about the client's failures (SpecClient)                         *)
(***************************************************************************)
ServiceCallErrored ==
    pc = "client_returned" /\ fn_arg.outcome.kind = "error"

\* C13: generate_title, generate_summary and generate_tag raise when the
\* service call errors; none of them returns a value then.
C13_ClientRaisesOnServiceError ==
    ServiceCallErrored => fn_ret.raised

(***************************************************************************)
(* Claims about the enriched payload and the new titles (Spec)             *)
(***************************************************************************)
\* enrichment is configured and enabled, and at least one title was
\* collected from the stats and the new-titles groups
EnrichedReturn ==
    /\ pc = "returned"
    /\ config.enabled
    /\ all_news_items(processed_stats(args), processed_new_titles(args)) # <<>>

\* C14: with enrichment enabled and at least one title collected, the
\* payload carries ai_processed = true and ai_categories, the categorization
\* of the enriched items, beside stats, new_titles, failed_ids and
\* total_new_count, whether or not video_format is set.
C14_AiPayloadWithoutVideoFormat ==
    EnrichedReturn =>
        /\ {"stats", "new_titles", "failed_ids", "total_new_count",
            "ai_processed", "ai_categories"} \subseteq DOMAIN report.payload
        /\ report.payload.ai_processed = TRUE
        /\ report.payload.ai_categories = categorize_news(processed_list)

\* the (source id, title) pairs of a sequence of source groups
TitlePairs(groups) ==
    UNION {{<<groups[k].source_id, groups[k].titles[j].title>> :
               j \in 1..Len(groups[k].titles)} : k \in 1..Len(groups)}

InputNewTitles == IF args.new_titles = NoneArg THEN <<>> ELSE args.new_titles[1]

\* mode is not "incremental" and no filter predicate is supplied
UnfilteredReturn ==
    /\ pc = "returned"
    /\ args.mode # "incremental"
    /\ args.matches_word_groups_func = NoneArg

\* C15: when mode is not "incremental" and no filter predicate is supplied,
\* every title of every source group of the input new_titles is in the
\* payload's new_titles and total_new_count is the number of input new
\* titles, also when id_to_name is absent or empty.
C15_AllNewTitlesPassThrough ==
    UnfilteredReturn =>
        /\ TitlePairs(InputNewTitles) \subseteq TitlePairs(report.payload.new_titles)
        /\ report.payload.total_new_count = CountNewTitles(args.new_titles)

(***************************************************************************)
(* Claims about images and links in strip_markdown (SpecFormat)            *)
(***************************************************************************)
StrImage == <<"!", "[", "x", "]", "(", "u", ")">>
StrLink == <<"[", "x", "]", "(", "u", ")">>
PlainAround == {<<>>, <<"a">>}

Stripped == pc = "formatted" /\ fn_ret.name = "strip_markdown"

\* C16: strip_markdown turns an image ![x](u) into its alt text x, with no
\* "!" and no URL left, and a link [x](u) into "x u".
C16_ImageToAltLinkKeepsUrl ==
    Stripped =>
        \A p, q \in PlainAround :
           /\ fn_arg.text = p \o StrImage \o q
                 => fn_ret.value = p \o <<"x">> \o q
           /\ fn_arg.text = p \o StrLink \o q
                 => fn_ret.value = p \o <<"x", " ", "u">> \o q

====
